---- MODULE Spec2Model ----
(***************************************************************************)
(* Model of the extraction-and-reconciliation core of gmail_tools.py:      *)
(* _reconcile_form_and_receipts and analyze_reimburse_email with the       *)
(* helpers they call, and the helpers _parse_amounts_from_text,            *)
(* _parse_reimburse_form_pdf, _select_form_pdf_attachment and              *)
(* _get_receipt_image_attachments called on their own.                     *)
(*                                                                         *)
(* Conventions.  A Python dict is a TLA+ record whose DOMAIN is the set of *)
(* keys present; d.get(k) is Get(d, k).  Python's None in an Optional[int] *)
(* slot is the integer None == -1: every amount of the program is parsed   *)
(* from a string of digits and is therefore >= 0.  A str the program reads *)
(* (OCR text, PDF text, a filename) is a sequence of symbols: a symbol is  *)
(* one character ("0".."9", ".", ",", ":", " ", "\n") or a run of letters  *)
(* the program only ever treats as a unit ("Rp", "Nama Bank", "form"); ""  *)
(* is <<>>, and None in a str slot is NoneStr.  Status values, notes and   *)
(* error messages, which the program only writes, are TLA+ strings.  List  *)
(* positions are 1-based here and 0-based in Python.                       *)
(***************************************************************************)
EXTENDS Integers, Sequences, FiniteSets, TLC

VARIABLES
    form_data,      \* reconcile: the form_data argument
    receipts,       \* reconcile: the receipts argument
    recon,          \* reconcile: the value returned by the last call on (form_data, receipts)
    used_flags,     \* reconcile: local used_flags at the end of the last call
    matched,        \* reconcile: local matched_idx of every item of the last call
    first,          \* the value the first call on (form_data, receipts) returned
    phase,          \* calls seen: 0 none on the pair, 1 one or more on the pair,
                    \* 2 then one on another pair, 3 then one more on the pair
    pc,             \* analyze: the statement analyze_reimburse_email is at
    mailbox,        \* the attachments of the message in the mail store
    attachments,    \* analyze: local attachments
    form_att,       \* analyze: local form_att
    pdf_bytes,      \* analyze: local pdf_bytes, as what PdfReader makes of it
    receipt_atts,   \* analyze: local receipt_atts
    ridx,           \* analyze: position of the for loop in receipt_atts
    ret,            \* analyze: the returned dict, or the exception raised
    calls,          \* the calls analyze made to its collaborators, with outcomes
    pa_text,        \* _parse_amounts_from_text: the text argument
    pa_ret,         \* _parse_amounts_from_text: the returned list
    pf_pdf,         \* _parse_reimburse_form_pdf: pdf_bytes, as what PdfReader makes of it
    pf_ret,         \* _parse_reimburse_form_pdf: the returned dict, or the exception raised
    cl_atts,        \* the attachments argument of the two attachment filters
    cl_ret          \* what _select_form_pdf_attachment and
                    \* _get_receipt_image_attachments returned for cl_atts

rvars == <<form_data, receipts, recon, used_flags, matched, first, phase>>
avars == <<pc, mailbox, attachments, form_att, pdf_bytes, receipt_atts, ridx, ret, calls>>
pvars == <<pa_text, pa_ret, pf_pdf, pf_ret, cl_atts, cl_ret>>
vars == <<rvars, avars, pvars>>

----------------------------------------------------------------------------
(* Bounds of the model *)

MaxItems == 2
MaxReceipts == 3
MaxAttachments == 3

(* Values the inputs are drawn from *)
Amounts == {1000, 2000}
FormTotals == {1000, 2000, 3000}
Filenames == {<<"a", ".jpg">>, <<"b", ".jpg">>}

None == -1
NoneStr == <<"<None>">>
NoResult == [overall_status |-> "<not called>"]
NotCalled == <<-1>>

----------------------------------------------------------------------------
(* Python helpers *)

Get(d, k) == IF k \in DOMAIN d THEN d[k] ELSE None

IsInt(x) == x # None

SeqOfMax(S, n) == UNION {[1..k -> S] : k \in 0..n}

----------------------------------------------------------------------------
(* Text *)

Digits == {"0", "1", "2", "3", "4", "5", "6", "7", "8", "9"}
Separators == {".", ","}

IsDigit(c) == c \in Digits

\* [0-9\.,]
IsNumChar(c) == c \in Digits \cup Separators

\* (?:IDR|Rp) under re.IGNORECASE
\* the pattern has no \b, so a word that holds the letters is a marker too
IsMarker(c) == c \in {"Rp", "rp", "RP", "rP", "IDR", "idr", "Idr", "Corp"}

\* \w: a digit or a run of letters; everything else is \W
IsWordChar(c) == c \notin Separators \cup {" ", "\n", ":", "/", "-"}

DigitVal(c) ==
    CASE c = "0" -> 0 [] c = "1" -> 1 [] c = "2" -> 2 [] c = "3" -> 3 [] c = "4" -> 4
      [] c = "5" -> 5 [] c = "6" -> 6 [] c = "7" -> 7 [] c = "8" -> 8 [] c = "9" -> 9

\* int(s) of a string of digits
RECURSIVE DigitsValue(_)
DigitsValue(ds) ==
    IF ds = <<>> THEN 0
    ELSE 10 * DigitsValue(SubSeq(ds, 1, Len(ds) - 1)) + DigitVal(ds[Len(ds)])

OnlyDigits(s) == SelectSeq(s, IsDigit)

\* The first digit of s from position lo on, and the last '.' or ','; 0 without one.
FirstDigitFrom(s, lo) ==
    LET ps == {j \in lo..Len(s) : IsDigit(s[j])}
    IN  IF ps = {} THEN 0 ELSE CHOOSE j \in ps : \A k \in ps : j <= k

LastSeparatorFrom(s, lo) ==
    LET ps == {j \in lo..Len(s) : s[j] \in Separators}
    IN  IF ps = {} THEN 0 ELSE CHOOSE j \in ps : \A k \in ps : j >= k

\* The end of the longest run of [0-9.,] that starts at j.
RECURSIVE NumRunEnd(_, _)
NumRunEnd(s, j) ==
    IF j < Len(s) /\ IsNumChar(s[j + 1]) THEN NumRunEnd(s, j + 1) ELSE j

\* The end of the longest run of digits that starts at j.
RECURSIVE DigitRunEnd(_, _)
DigitRunEnd(s, j) ==
    IF j < Len(s) /\ IsDigit(s[j + 1]) THEN DigitRunEnd(s, j + 1) ELSE j

\* Mutant of SortedSeq: sorted(set(amounts), reverse=True)
RECURSIVE DescendingSeq(_)
DescendingSeq(S) ==
    IF S = {} THEN <<>>
    ELSE LET m == CHOOSE x \in S : \A y \in S : x >= y
         IN  <<m>> \o DescendingSeq(S \ {m})

\* sorted(set(amounts))
RECURSIVE SortedSeq(_)
SortedSeq(S) ==
    IF S = {} THEN <<>>
    ELSE LET m == CHOOSE x \in S : \A y \in S : x <= y
         IN  <<m>> \o SortedSeq(S \ {m})

RECURSIVE SeqToSet(_)
SeqToSet(q) == IF q = <<>> THEN {} ELSE {Head(q)} \cup SeqToSet(Tail(q))

----------------------------------------------------------------------------
(* _parse_amounts_from_text *)

\* text.replace("\n", " ")
Cleaned(text) == [i \in 1..Len(text) |-> IF text[i] = "\n" THEN " " ELSE text[i]]

\* Mutant of ToInt: a final segment of 2 digits is rounded into the amount
\* instead of being dropped.
ToIntRounding(num_str) ==
    LET s == [i \in 1..Len(num_str) |-> IF num_str[i] = "," THEN "." ELSE num_str[i]]
        dots == {i \in 1..Len(s) : s[i] = "."}
        last == CHOOSE i \in dots : \A j \in dots : i >= j
        cents == dots # {} /\ Len(s) - last = 2
        kept == IF cents THEN SubSeq(s, 1, last - 1) ELSE s
        ds == OnlyDigits(kept)
    IN  IF ds = <<>> THEN None
        ELSE DigitsValue(ds) + (IF cents /\ DigitVal(s[last + 1]) >= 5 THEN 1 ELSE 0)

\* _to_int: ',' is read as '.', a final segment of exactly 2 characters is
\* dropped, the other segments are concatenated; None when int() raises.
ToInt(num_str) ==
    LET s == [i \in 1..Len(num_str) |-> IF num_str[i] = "," THEN "." ELSE num_str[i]]
        dots == {i \in 1..Len(s) : s[i] = "."}
        last == CHOOSE i \in dots : \A j \in dots : i >= j
        kept == IF dots # {} /\ Len(s) - last = 2 THEN SubSeq(s, 1, last - 1) ELSE s
        ds == OnlyDigits(kept)
    IN  IF ds = <<>> THEN None ELSE DigitsValue(ds)

\* pattern_currency.findall(cleaned), from position i on: at a marker, [^\d]*
\* runs to the first digit and the group is the run of [0-9.,] from there;
\* without a digit left the regex backtracks to the last '.' or ','.
RECURSIVE CurrencyGroups(_, _)
CurrencyGroups(s, i) ==
    IF i > Len(s) THEN <<>>
    ELSE IF ~IsMarker(s[i]) THEN CurrencyGroups(s, i + 1)
    ELSE LET d == FirstDigitFrom(s, i + 1)
             q == LastSeparatorFrom(s, i + 1)
         IN  IF d # 0
             THEN LET e == NumRunEnd(s, d)
                  IN  <<SubSeq(s, d, e)>> \o CurrencyGroups(s, e + 1)
             ELSE IF q # 0
                  THEN <<SubSeq(s, q, q)>> \o CurrencyGroups(s, q + 1)
                  ELSE CurrencyGroups(s, i + 1)

\* The end of (?:[.,]\d{3})* taken greedily from position e.
RECURSIVE GroupsEnd(_, _)
GroupsEnd(s, e) ==
    IF /\ e + 4 <= Len(s)
       /\ s[e + 1] \in Separators
       /\ IsDigit(s[e + 2]) /\ IsDigit(s[e + 3]) /\ IsDigit(s[e + 4])
    THEN GroupsEnd(s, e + 4) ELSE e

\* The end of a match of \b(\d{1,3}(?:[.,]\d{3})+)\b that starts at i; 0
\* when there is none.
GenericMatchEnd(s, i) ==
    IF ~IsDigit(s[i]) \/ (i > 1 /\ IsWordChar(s[i - 1])) THEN 0
    ELSE LET h == DigitRunEnd(s, i)
             e == GroupsEnd(s, h)
         IN  IF h - i + 1 > 3 \/ e = h THEN 0
             ELSE IF e = Len(s) \/ ~IsWordChar(s[e + 1]) THEN e
             ELSE IF e - 4 > h THEN e - 4
             ELSE 0

\* pattern_generic.findall(cleaned), from position i on.
RECURSIVE GenericGroups(_, _)
GenericGroups(s, i) ==
    IF i > Len(s) THEN <<>>
    ELSE LET e == GenericMatchEnd(s, i)
         IN  IF e = 0 THEN GenericGroups(s, i + 1)
             ELSE <<SubSeq(s, i, e)>> \o GenericGroups(s, e + 1)

\* The list amounts after the primary loop (lines 141-144).
PrimaryAmounts(cleaned) ==
    LET gs == CurrencyGroups(cleaned, 1)
    IN  SelectSeq([k \in 1..Len(gs) |-> ToInt(gs[k])], IsInt)

\* The amounts of the fallback loop (lines 147-153).
FallbackAmounts(cleaned) ==
    LET gs == GenericGroups(cleaned, 1)
    IN  [k \in 1..Len(gs) |-> DigitsValue(OnlyDigits(gs[k]))]

\* Mutant of ParseAmounts: 'return amounts', without sorted(set(...)).
ParseAmountsAsFound(text) ==
    IF text = <<>> THEN <<>>
    ELSE LET cleaned == Cleaned(text)
             primary == PrimaryAmounts(cleaned)
         IN  IF primary = <<>> THEN FallbackAmounts(cleaned) ELSE primary

\* Mutant of ParseAmounts: the fallback loop runs without 'if not amounts'.
ParseAmountsBothPasses(text) ==
    IF text = <<>> THEN <<>>
    ELSE LET cleaned == Cleaned(text)
         IN  SortedSeq(SeqToSet(PrimaryAmounts(cleaned) \o FallbackAmounts(cleaned)))

ParseAmounts(text) ==
    IF text = <<>> THEN <<>>
    ELSE LET cleaned == Cleaned(text)
             primary == PrimaryAmounts(cleaned)
             amounts == IF primary = <<>> THEN FallbackAmounts(cleaned) ELSE primary
         IN  SortedSeq(SeqToSet(amounts))

----------------------------------------------------------------------------
(* _parse_reimburse_form_pdf *)

\* str.strip()
RECURSIVE LStrip(_)
LStrip(ln) == IF ln # <<>> /\ Head(ln) = " " THEN LStrip(Tail(ln)) ELSE ln

RECURSIVE RStrip(_)
RStrip(ln) ==
    IF ln # <<>> /\ ln[Len(ln)] = " " THEN RStrip(SubSeq(ln, 1, Len(ln) - 1)) ELSE ln

Strip(ln) == RStrip(LStrip(ln))

\* "\n".join(text_parts)
RECURSIVE JoinWith(_, _)
JoinWith(parts, sep) ==
    IF parts = <<>> THEN <<>>
    ELSE IF Len(parts) = 1 THEN parts[1]
    ELSE parts[1] \o <<sep>> \o JoinWith(Tail(parts), sep)

\* full_text.splitlines()
RECURSIVE SplitLines(_)
SplitLines(text) ==
    IF text = <<>> THEN <<>>
    ELSE LET nl == {i \in 1..Len(text) : text[i] = "\n"}
             n == CHOOSE i \in nl : \A j \in nl : i <= j
         IN  IF nl = {} THEN <<text>>
             ELSE <<SubSeq(text, 1, n - 1)>> \o SplitLines(SubSeq(text, n + 1, Len(text)))

\* [ln.strip() for ln in full_text.splitlines() if ln.strip()]
FormLines(full_text) ==
    LET raw == SplitLines(full_text)
        stripped == [i \in 1..Len(raw) |-> Strip(raw[i])]
    IN  SelectSeq(stripped, LAMBDA ln : ln # <<>>)

\* ln.startswith(label), label being one symbol
StartsWith(ln, label) == ln # <<>> /\ ln[1] = label

HasColon(ln) == \E i \in 1..Len(ln) : ln[i] = ":"

\* ln.split(":", 1)[1].strip(), for a line with a ':'
AfterColon(ln) ==
    LET cs == {i \in 1..Len(ln) : ln[i] = ":"}
        c == CHOOSE i \in cs : \A j \in cs : i <= j
    IN  Strip(SubSeq(ln, c + 1, Len(ln)))

\* Lines 421-428: the first "Tanggal Pengajuan" line decides.
Tanggal(lines) ==
    LET hits == {i \in 1..Len(lines) : StartsWith(lines[i], "Tanggal Pengajuan")}
        i == CHOOSE i \in hits : \A j \in hits : i <= j
    IN  IF hits # {} /\ HasColon(lines[i]) THEN AfterColon(lines[i]) ELSE <<>>

BankLabels == {"Nama Bank", "Nomor Rekening", "Nama Rekening"}

\* Lines 432-438: split(":", 1)[1] raises IndexError on a label line without ':'.
BankRaises(lines) ==
    \E i \in 1..Len(lines) : lines[i] # <<>> /\ lines[i][1] \in BankLabels /\ ~HasColon(lines[i])

\* Lines 432-438: the last line with the label decides.
BankField(lines, label) ==
    LET hits == {i \in 1..Len(lines) : StartsWith(lines[i], label)}
        i == CHOOSE i \in hits : \A j \in hits : i >= j
    IN  IF hits = {} THEN <<>> ELSE AfterColon(lines[i])

\* The end of the run of spaces that starts at j.
RECURSIVE SpaceRunEnd(_, _)
SpaceRunEnd(s, j) ==
    IF j < Len(s) /\ s[j + 1] = " " THEN SpaceRunEnd(s, j + 1) ELSE j

\* re.search(r"1\s+(.*?)\s+Rp", row_text) with its start at p: the first \s+
\* takes the whole run of spaces and (.*?) ends before the first later run of
\* spaces that "Rp" follows; failing that, the first \s+ gives back one space
\* and the group is empty.  <<found, group(1)>>.
DescAt(s, p) ==
    IF ~(s[p] = "1" /\ p < Len(s) /\ s[p + 1] = " ") THEN <<FALSE, <<>>>>
    ELSE LET w == SpaceRunEnd(s, p + 1)
             starts == {j \in (w + 2)..Len(s) :
                          /\ s[j] = " "
                          /\ s[j - 1] # " "
                          /\ SpaceRunEnd(s, j) < Len(s)
                          /\ s[SpaceRunEnd(s, j) + 1] = "Rp"}
             j == CHOOSE j \in starts : \A k \in starts : j <= k
         IN  IF starts # {} THEN <<TRUE, SubSeq(s, w + 1, j - 1)>>
             ELSE IF w >= p + 2 /\ w < Len(s) /\ s[w + 1] = "Rp" THEN <<TRUE, <<>>>>
             ELSE <<FALSE, <<>>>>

\* Lines 450-452: item_description
Description(row_text) ==
    LET hits == {p \in 1..Len(row_text) : DescAt(row_text, p)[1]}
        p == CHOOSE p \in hits : \A q \in hits : p <= q
    IN  IF hits = {} THEN <<>> ELSE Strip(DescAt(row_text, p)[2])

\* The end of (?:\.\d{3})* taken greedily from position e.
RECURSIVE DotGroupsEnd(_, _)
DotGroupsEnd(s, e) ==
    IF /\ e + 4 <= Len(s)
       /\ s[e + 1] = "."
       /\ IsDigit(s[e + 2]) /\ IsDigit(s[e + 3]) /\ IsDigit(s[e + 4])
    THEN DotGroupsEnd(s, e + 4) ELSE e

\* re.findall(r"(\d{1,3}(?:\.\d{3})+)", row_text), from position i on.
RECURSIVE RowNums(_, _)
RowNums(s, i) ==
    IF i > Len(s) THEN <<>>
    ELSE IF ~IsDigit(s[i]) THEN RowNums(s, i + 1)
    ELSE LET h == DigitRunEnd(s, i)
             e == DotGroupsEnd(s, h)
         IN  IF h - i + 1 > 3 \/ e = h THEN RowNums(s, i + 1)
             ELSE <<DigitsValue(OnlyDigits(SubSeq(s, i, e)))>> \o RowNums(s, e + 1)

\* re.search(r"\s(\d+)\s+Rp", row_text): the digits of the leftmost match.
Jumlah(s) ==
    LET ok(p) == /\ s[p] = " "
                 /\ p < Len(s) /\ IsDigit(s[p + 1])
                 /\ LET d == DigitRunEnd(s, p + 1)
                    IN  /\ d < Len(s) /\ s[d + 1] = " "
                        /\ SpaceRunEnd(s, d + 1) < Len(s)
                        /\ s[SpaceRunEnd(s, d + 1) + 1] = "Rp"
        hits == {p \in 1..Len(s) : ok(p)}
        p == CHOOSE p \in hits : \A q \in hits : p <= q
    IN  IF hits = {} THEN None
        ELSE DigitsValue(SubSeq(s, p + 1, DigitRunEnd(s, p + 1)))

\* Mutant of ParseFormText: "total": harga, the first number of the row.
ParseFormTextTotalIsPrice(full_text) ==
    LET lines == FormLines(full_text)
        heads == {i \in 1..Len(lines) : StartsWith(lines[i], "No Description")}
        h == CHOOSE i \in heads : \A j \in heads : i <= j
        row_text == IF heads = {} THEN <<>>
                    ELSE JoinWith(SubSeq(lines, h + 1, IF h + 3 <= Len(lines)
                                                       THEN h + 3 ELSE Len(lines)), " ")
        nums == RowNums(row_text, 1)
        harga == IF heads # {} /\ nums # <<>> THEN nums[1] ELSE None
        subtotal == IF heads # {} /\ nums # <<>> THEN nums[Len(nums)] ELSE None
    IN  IF BankRaises(lines) THEN [raised |-> "IndexError"]
        ELSE [tanggal_pengajuan |-> Tanggal(lines),
              items |-> <<[description |-> IF heads = {} THEN <<>>
                                           ELSE Description(row_text),
                           harga |-> harga,
                           jumlah |-> IF heads = {} THEN None ELSE Jumlah(row_text),
                           subtotal |-> subtotal]>>,
              total |-> harga,
              rekening |-> [bank |-> BankField(lines, "Nama Bank"),
                            nomor_rekening |-> BankField(lines, "Nomor Rekening"),
                            nama_rekening |-> BankField(lines, "Nama Rekening")]]

\* Lines 417-486, on the text of the pages.
ParseFormText(full_text) ==
    LET lines == FormLines(full_text)
        heads == {i \in 1..Len(lines) : StartsWith(lines[i], "No Description")}
        h == CHOOSE i \in heads : \A j \in heads : i <= j
        row_text == IF heads = {} THEN <<>>
                    ELSE JoinWith(SubSeq(lines, h + 1, IF h + 3 <= Len(lines)
                                                       THEN h + 3 ELSE Len(lines)), " ")
        nums == RowNums(row_text, 1)
        harga == IF heads # {} /\ nums # <<>> THEN nums[1] ELSE None
        subtotal == IF heads # {} /\ nums # <<>> THEN nums[Len(nums)] ELSE None
    IN  IF BankRaises(lines) THEN [raised |-> "IndexError"]
        ELSE [tanggal_pengajuan |-> Tanggal(lines),
              items |-> <<[description |-> IF heads = {} THEN <<>>
                                           ELSE Description(row_text),
                           harga |-> harga,
                           jumlah |-> IF heads = {} THEN None ELSE Jumlah(row_text),
                           subtotal |-> subtotal]>>,
              total |-> subtotal,
              rekening |-> [bank |-> BankField(lines, "Nama Bank"),
                            nomor_rekening |-> BankField(lines, "Nomor Rekening"),
                            nama_rekening |-> BankField(lines, "Nama Rekening")]]

\* _parse_reimburse_form_pdf(pdf_bytes): PdfReader raises on bytes that are no
\* PDF; otherwise the texts of the pages are joined and parsed.
ParseForm(pdf) ==
    IF ~pdf.readable THEN [raised |-> "PdfReadError"]
    ELSE ParseFormText(JoinWith(pdf.pages, "\n"))

----------------------------------------------------------------------------
(* Attachments: _select_form_pdf_attachment, _get_receipt_image_attachments *)

\* str.lower(), on the symbols of filenames and MIME types
Lower(c) ==
    CASE c = "FORM" -> "form" [] c = ".PDF" -> ".pdf" [] c = ".JPG" -> ".jpg"
      [] c = ".PNG" -> ".png" [] OTHER -> c

LowerStr(str) == [i \in 1..Len(str) |-> Lower(str[i])]

\* (att.get(key) or "").lower()
LowerOf(att, key) == IF key \in DOMAIN att /\ att[key] # NoneStr THEN LowerStr(att[key]) ELSE <<>>

Contains(str, c) == \E i \in 1..Len(str) : str[i] = c

EndsWith(str, c) == str # <<>> /\ str[Len(str)] = c

PositiveKeywords == {"reimburse", "reimbursement", "form", "persetujuan", "approval"}
NegativeKeywords == {"receipt", "bukti", "invoice", "struk"}
ImageExtensions == {".jpg", ".jpeg", ".png"}

\* Line 377
IsPdf(att) == Contains(LowerOf(att, "mimeType"), "pdf") \/ EndsWith(LowerOf(att, "filename"), ".pdf")

\* Line 200
IsImage(att) ==
    LET mime == LowerOf(att, "mimeType")
        filename == LowerOf(att, "filename")
    IN  \/ (Len(mime) >= 2 /\ mime[1] = "image" /\ mime[2] = "/")
        \/ \E e \in ImageExtensions : EndsWith(filename, e)

\* Lines 383-395
Score(att) ==
    LET name == LowerOf(att, "filename")
    IN  (IF \E k \in PositiveKeywords : Contains(name, k) THEN 10 ELSE 0)
        - (IF \E k \in NegativeKeywords : Contains(name, k) THEN 5 ELSE 0)

\* Mutant of SortByScoreDesc: sorted(pdf_atts, key=score)[::-1], which turns
\* the order of equal scores round.
RECURSIVE SortByScoreReversed(_)
SortByScoreReversed(atts) ==
    IF atts = <<>> THEN <<>>
    ELSE LET best == {i \in 1..Len(atts) : \A j \in 1..Len(atts) : Score(atts[i]) >= Score(atts[j])}
             b == CHOOSE i \in best : \A j \in best : i >= j
         IN  <<atts[b]>> \o SortByScoreReversed(SubSeq(atts, 1, b - 1) \o SubSeq(atts, b + 1, Len(atts)))

\* list.sort(key=score, reverse=True): stable, equal scores keep their order.
RECURSIVE SortByScoreDesc(_)
SortByScoreDesc(atts) ==
    IF atts = <<>> THEN <<>>
    ELSE LET best == {i \in 1..Len(atts) : \A j \in 1..Len(atts) : Score(atts[i]) >= Score(atts[j])}
             b == CHOOSE i \in best : \A j \in best : i <= j
         IN  <<atts[b]>> \o SortByScoreDesc(SubSeq(atts, 1, b - 1) \o SubSeq(atts, b + 1, Len(atts)))

NoAttachment == [attachment_id |-> None]

\* _select_form_pdf_attachment
SelectFormPdf(atts) ==
    LET pdf_atts == SelectSeq(atts, IsPdf)
    IN  IF pdf_atts = <<>> THEN NoAttachment ELSE SortByScoreDesc(pdf_atts)[1]

\* _get_receipt_image_attachments
GetReceiptImageAttachments(atts) == SelectSeq(atts, IsImage)

----------------------------------------------------------------------------
(* _reconcile_form_and_receipts *)

\* The three notes; the total-mismatch note is an f-string of the two sums,
\* of which only its presence is modelled.
NoteTotal == "Form total does not match sum of receipt amounts."
NoteMissing == "Some items do not have a matching payment receipt."
NoteUnused == "Some payment receipts are unused / do not match any item."

\* usable_receipts: the receipts with an int selected_amount, in input order,
\* each with the position idx it has in receipts.
RECURSIVE UsableFrom(_, _)
UsableFrom(rs, i) ==
    IF i > Len(rs) THEN <<>>
    ELSE IF IsInt(Get(rs[i], "selected_amount"))
         THEN <<[idx |-> i,
                 amount |-> Get(rs[i], "selected_amount"),
                 filename |-> Get(rs[i], "filename")]>> \o UsableFrom(rs, i + 1)
         ELSE UsableFrom(rs, i + 1)

UsableReceipts(rs) == UsableFrom(rs, 1)

\* Mutant of NewUsedFlags: the flags live in a dict that outlives the call (a
\* module-level dict or a mutable default argument), so a key keeps the value
\* an earlier call left in it.
StaleUsedFlags(usable) ==
    [i \in {usable[k].idx : k \in 1..Len(usable)} |->
        IF i \in DOMAIN used_flags THEN used_flags[i] ELSE FALSE]

\* used_flags = {r["idx"]: False for r in usable_receipts}
NewUsedFlags(usable) == [i \in {usable[k].idx : k \in 1..Len(usable)} |-> FALSE]

\* The inner for loop: the position in usable of the first receipt that is not
\* used and whose amount equals target; 0 when the loop ends without a break.
RECURSIVE FirstFitFrom(_, _, _, _)
FirstFitFrom(usable, used, target, k) ==
    IF k > Len(usable) THEN 0
    ELSE IF used[usable[k].idx] THEN FirstFitFrom(usable, used, target, k + 1)
    ELSE IF usable[k].amount = target THEN k
    ELSE FirstFitFrom(usable, used, target, k + 1)

\* Mutant of FirstFit: the 'if used_flags[...]: continue' test is lost.
FirstFitIgnoringUsed(usable, used, target) ==
    LET hits == {k \in 1..Len(usable) : usable[k].amount = target}
    IN  IF hits = {} THEN 0 ELSE CHOOSE k \in hits : \A j \in hits : k <= j

\* Mutant of FirstFit: the break stands outside the 'if', so only the first
\* receipt that is not used is looked at.
FirstUnusedOnly(usable, used, target) ==
    LET free == {k \in 1..Len(usable) : ~used[usable[k].idx]}
        k == CHOOSE k \in free : \A j \in free : k <= j
    IN  IF free # {} /\ usable[k].amount = target THEN k ELSE 0

\* Mutant of FirstFit: the loop has no break, so the last fit wins.
LastFit(usable, used, target) ==
    LET hits == {k \in 1..Len(usable) : ~used[usable[k].idx] /\ usable[k].amount = target}
    IN  IF hits = {} THEN 0 ELSE CHOOSE k \in hits : \A j \in hits : k >= j

FirstFit(usable, used, target) == FirstFitFrom(usable, used, target, 1)

\* item.get("description") or item.get("deskripsi")
ItemDescription(item) ==
    IF "description" \in DOMAIN item /\ item.description # <<>>
    THEN item.description
    ELSE IF "deskripsi" \in DOMAIN item THEN item.deskripsi ELSE NoneStr

\* One pass of the outer for loop, for items[n], from the loop state st =
\* [used, results, matched]; matched records matched_idx of every item.
MatchItem(item, usable, st) ==
    LET target == Get(item, "subtotal")
        description == ItemDescription(item)
        k == IF IsInt(target) THEN FirstFit(usable, st.used, target) ELSE 0
    IN  IF k # 0
        THEN [used |-> [st.used EXCEPT ![usable[k].idx] = TRUE],
              results |-> Append(st.results,
                  [description |-> description,
                   subtotal |-> target,
                   status |-> "MATCH",
                   receipt_filename |-> usable[k].filename]),
              matched |-> Append(st.matched, usable[k].idx)]
        ELSE [used |-> st.used,
              results |-> Append(st.results,
                  [description |-> description,
                   subtotal |-> target,
                   status |-> "MISSING_RECEIPT",
                   receipt_filename |-> NoneStr]),
              matched |-> Append(st.matched, None)]

RECURSIVE MatchFrom(_, _, _, _)
MatchFrom(items, usable, st, n) ==
    IF n > Len(items) THEN st
    ELSE MatchFrom(items, usable, MatchItem(items[n], usable, st), n + 1)

MatchItems(items, usable) ==
    MatchFrom(items, usable,
              [used |-> NewUsedFlags(usable), results |-> <<>>, matched |-> <<>>], 1)

\* unmatched_receipts = [receipts[idx] for idx, used in used_flags.items() if not used]
\* (a dict iterates in insertion order, which is the order of usable_receipts).
RECURSIVE UnmatchedFrom(_, _, _, _)
UnmatchedFrom(rs, usable, used, k) ==
    IF k > Len(usable) THEN <<>>
    ELSE IF ~used[usable[k].idx]
         THEN <<rs[usable[k].idx]>> \o UnmatchedFrom(rs, usable, used, k + 1)
         ELSE UnmatchedFrom(rs, usable, used, k + 1)

UnmatchedReceipts(rs, usable, used) == UnmatchedFrom(rs, usable, used, 1)

\* sum(r.get("selected_amount") or 0 for r in receipts if isinstance(..., int))
RECURSIVE SumFrom(_, _)
SumFrom(rs, i) ==
    IF i > Len(rs) THEN 0
    ELSE (IF IsInt(Get(rs[i], "selected_amount")) THEN Get(rs[i], "selected_amount") ELSE 0)
         + SumFrom(rs, i + 1)

\* Mutant of SumReceipts: the amounts are summed as a set, sum(set(...)).
SumDistinct(rs) ==
    LET vals == {Get(rs[i], "selected_amount") : i \in 1..Len(rs)} \ {None}
        RECURSIVE SetSum(_)
        SetSum(S) == IF S = {} THEN 0
                     ELSE LET x == CHOOSE x \in S : TRUE IN x + SetSum(S \ {x})
    IN  SetSum(vals)

SumReceipts(rs) == SumFrom(rs, 1)

\* Lines 288-303: overall_status and notes.
TotalMismatch(form_total, sum_receipts) ==
    form_total # None /\ IsInt(form_total) /\ form_total # sum_receipts

AnyNotMatch(results) == \E i \in 1..Len(results) : results[i].status # "MATCH"

\* Mutant of OverallStatus: only the totals decide the status.
StatusFromTotalOnly(form_total, sum_receipts, results) ==
    IF TotalMismatch(form_total, sum_receipts) THEN "MISMATCH" ELSE "OK"

OverallStatus(form_total, sum_receipts, results) ==
    IF TotalMismatch(form_total, sum_receipts) \/ AnyNotMatch(results)
    THEN "MISMATCH" ELSE "OK"

Notes(form_total, sum_receipts, results, unmatched) ==
    (IF TotalMismatch(form_total, sum_receipts) THEN <<NoteTotal>> ELSE <<>>)
    \o (IF AnyNotMatch(results) THEN <<NoteMissing>> ELSE <<>>)
    \o (IF unmatched # <<>> THEN <<NoteUnused>> ELSE <<>>)

\* The whole function: the returned dict, with the final locals beside it.
ReconcileRun(form, rs) ==
    LET items == IF "items" \in DOMAIN form THEN form.items ELSE <<>>
        usable == UsableReceipts(rs)
        st == MatchItems(items, usable)
        unmatched == UnmatchedReceipts(rs, usable, st.used)
        form_total == Get(form, "total")
        sum_receipts == SumReceipts(rs)
    IN  [ret |-> [overall_status |-> OverallStatus(form_total, sum_receipts, st.results),
                  items |-> st.results,
                  unmatched_receipts |-> unmatched,
                  form_total |-> form_total,
                  sum_receipt_amounts |-> sum_receipts,
                  notes |-> Notes(form_total, sum_receipts, st.results, unmatched)],
         used |-> st.used,
         matched |-> st.matched]

Reconcile(form, rs) == ReconcileRun(form, rs).ret

----------------------------------------------------------------------------
(* analyze_reimburse_email *)

PreviewLen == 300
Ellipsis == "..."

NoPdf == [readable |-> FALSE, pages |-> <<>>]
NoForm == [items |-> <<>>, total |-> None]
NoReturn == [pending |-> TRUE]

MessageId == "m1"

\* What a collaborator call can end in: its value, the HttpError the code
\* catches by name, or any other exception (line 187's urlsafe_b64decode
\* raising binascii.Error, a socket timeout, an expired token).
Outcomes == {"ok", "HttpError", "other"}

\* The attachments a message can carry (filename, mimeType); attachment_id is
\* the position in the message.
PdfMime == <<"application", "/", "pdf">>
JpegMime == <<"image", "/", "jpeg">>
OctetMime == <<"application", "/", "octet-stream">>

AttachmentKinds ==
    {[filename |-> <<"form", ".pdf">>, mimeType |-> PdfMime],
     [filename |-> <<"receipt", ".pdf">>, mimeType |-> PdfMime],
     [filename |-> <<"a", ".jpg">>, mimeType |-> JpegMime],
     [filename |-> <<"b", ".PNG">>, mimeType |-> OctetMime],
     [filename |-> <<"scan", ".png">>, mimeType |-> PdfMime]}

\* _collect_attachments: one descriptor per part with a filename and an attachmentId.
Mailboxes ==
    {[i \in 1..Len(ks) |-> [attachment_id |-> i,
                            filename |-> ks[i].filename,
                            mimeType |-> ks[i].mimeType]]
        : ks \in SeqOfMax(AttachmentKinds, MaxAttachments)}

\* What the form PDF can hold.
FormPage(amount, bank_colon) ==
    <<"Tanggal Pengajuan", " ", ":", " ", "1", "6", "/", "0", "4", "\n",
      "DETAIL PENGAJUAN", "\n",
      "No Description", " ", "Detail", "\n",
      "1", " ", "Taxi", " ", "Rp", " ">> \o amount \o <<" ", "1", " ", "Rp", " ">> \o amount
    \o <<"\n", "Nama Bank", " ">> \o bank_colon \o <<" ", "BCA", "\n">>

Pdfs ==
    {[readable |-> FALSE, pages |-> <<>>],
     [readable |-> TRUE, pages |-> <<>>],
     [readable |-> TRUE, pages |-> <<FormPage(<<"1", ".", "0", "0", "0">>, <<":">>)>>],
     [readable |-> TRUE, pages |-> <<FormPage(<<"1", ".", "0", "0", "0">>, <<>>)>>]}

\* What the OCR service can read from an image.
OcrTexts ==
    {<<>>,
     <<"Total", " ", "Rp", " ", "1", ".", "0", "0", "0">>,
     <<"IDR", "2", ",", "0", "0", "0", ".", "0", "0", "\n", "Rp", " ", "1", ".", "0", "0", "0">>,
     <<"TERIMA KASIH">>}

\* (ocr_text[:300] + "...") if ocr_text else ""
Preview(ocr_text) ==
    IF ocr_text # <<>>
    THEN SubSeq(ocr_text, 1, IF Len(ocr_text) < PreviewLen THEN Len(ocr_text) ELSE PreviewLen)
         \o <<Ellipsis>>
    ELSE <<>>

\* Lines 845-852
DownloadErrorEntry(filename) ==
    [filename |-> filename,
     error |-> "Failed to download payment receipt attachment.",
     status |-> "e.resp.status",
     reason |-> "e._get_reason()"]

\* Mutant of OcrErrorEntry: the entry of a failed OCR also carries empty amounts.
OcrErrorEntryWithAmounts(filename) ==
    [filename |-> filename, error |-> "OCR failed",
     candidate_amounts |-> <<>>, selected_amount |-> None]

\* Lines 860-865
OcrErrorEntry(filename) == [filename |-> filename, error |-> "OCR failed"]

\* Lines 857-858 and 868-875
OkEntry(filename, ocr_text) ==
    LET amounts == ParseAmounts(ocr_text)
    IN  [filename |-> filename,
         candidate_amounts |-> amounts,
         selected_amount |-> IF amounts # <<>> THEN amounts[Len(amounts)] ELSE None,
         ocr_text_preview |-> Preview(ocr_text)]

Called(op, att, outcome) == Append(calls, [op |-> op, att |-> att, outcome |-> outcome])

Return(value) ==
    /\ ret' = value
    /\ pc' = "done"

\* Lines 758-789: _get_gmail_service and messages().get(); only HttpError is
\* caught; then _collect_attachments.
AnalyzeFetch(outcome) ==
    /\ pc = "fetch"
    /\ UNCHANGED pvars
    /\ calls' = Called("get_message", 0, outcome)
    /\ IF outcome = "ok"
       THEN /\ attachments' = mailbox
            /\ pc' = "check_attachments"
            /\ UNCHANGED ret
       ELSE /\ Return(IF outcome = "HttpError"
                      THEN [error |-> "HttpError while fetching message.",
                            status |-> "e.resp.status",
                            reason |-> "e._get_reason()",
                            message_id |-> MessageId]
                      ELSE [raised |-> "Exception"])
            /\ UNCHANGED attachments
    /\ UNCHANGED <<rvars, mailbox, form_att, pdf_bytes, receipt_atts, ridx>>

\* Lines 791-795
AnalyzeCheckAttachments ==
    /\ pc = "check_attachments"
    /\ UNCHANGED pvars
    /\ IF attachments = <<>>
       THEN Return([error |-> "No attachments found in this email.",
                    message_id |-> MessageId])
       ELSE pc' = "select_form" /\ UNCHANGED ret
    /\ UNCHANGED <<rvars, mailbox, attachments, form_att, pdf_bytes, receipt_atts, ridx, calls>>

\* Lines 798-805
AnalyzeSelectForm ==
    /\ pc = "select_form"
    /\ UNCHANGED pvars
    /\ form_att' = SelectFormPdf(attachments)
    /\ IF form_att' = NoAttachment
       THEN Return([error |-> "No reimbursement form PDF attachment found in this email.",
                    message_id |-> MessageId,
                    attachments_ditemukan |-> attachments])
       ELSE pc' = "download_form" /\ UNCHANGED ret
    /\ UNCHANGED <<rvars, mailbox, attachments, pdf_bytes, receipt_atts, ridx, calls>>

\* Lines 808-820: only HttpError is caught.
AnalyzeDownloadForm(outcome, pdf) ==
    /\ pc = "download_form"
    /\ UNCHANGED pvars
    /\ calls' = Called("download_form", form_att.attachment_id, outcome)
    /\ IF outcome = "ok"
       THEN /\ pdf_bytes' = pdf
            /\ pc' = "parse_form"
            /\ UNCHANGED ret
       ELSE /\ pdf = NoPdf
            /\ Return(IF outcome = "HttpError"
                      THEN [error |-> "HttpError while downloading PDF form.",
                            status |-> "e.resp.status",
                            reason |-> "e._get_reason()",
                            message_id |-> MessageId,
                            attachment_id |-> form_att.attachment_id,
                            filename |-> form_att.filename]
                      ELSE [raised |-> "Exception"])
            /\ UNCHANGED pdf_bytes
    /\ UNCHANGED <<rvars, mailbox, attachments, form_att, receipt_atts, ridx>>

\* Lines 822-836: every exception of the parser is caught; then the form is
\* stamped and the receipt images are selected.
AnalyzeParseForm ==
    /\ pc = "parse_form"
    /\ UNCHANGED pvars
    /\ LET parsed == ParseForm(pdf_bytes)
       IN  IF "raised" \in DOMAIN parsed
           THEN /\ calls' = Called("parse_form", form_att.attachment_id, "other")
                /\ Return([error |-> "Failed to parse reimbursement PDF form",
                           message_id |-> MessageId,
                           filename |-> form_att.filename])
                /\ UNCHANGED <<form_data, receipt_atts, receipts, ridx>>
           ELSE /\ calls' = Called("parse_form", form_att.attachment_id, "ok")
                /\ form_data' = [tanggal_pengajuan |-> parsed.tanggal_pengajuan,
                                 items |-> parsed.items,
                                 total |-> parsed.total,
                                 rekening |-> parsed.rekening,
                                 source_email_id |-> MessageId,
                                 source_pdf_filename |-> form_att.filename]
                /\ receipt_atts' = GetReceiptImageAttachments(attachments)
                /\ receipts' = <<>>
                /\ ridx' = 1
                /\ pc' = "receipt_loop"
                /\ UNCHANGED ret
    /\ UNCHANGED <<recon, used_flags, matched, first, phase, mailbox, attachments, form_att, pdf_bytes>>

\* Lines 838-853: the download of receipt_atts[ridx]; only HttpError is caught.
AnalyzeDownloadReceipt(outcome) ==
    /\ pc = "receipt_loop"
    /\ UNCHANGED pvars
    /\ ridx <= Len(receipt_atts)
    /\ calls' = Called("download_receipt", receipt_atts[ridx].attachment_id, outcome)
    /\ CASE outcome = "ok" ->
                /\ pc' = "ocr"
                /\ UNCHANGED <<receipts, ridx, ret>>
         [] outcome = "HttpError" ->
                /\ receipts' = Append(receipts, DownloadErrorEntry(receipt_atts[ridx].filename))
                /\ ridx' = ridx + 1
                /\ UNCHANGED <<pc, ret>>
         [] outcome = "other" ->
                /\ Return([raised |-> "Exception"])
                /\ UNCHANGED <<receipts, ridx>>
    /\ UNCHANGED <<form_data, recon, used_flags, matched, first, phase,
                   mailbox, attachments, form_att, pdf_bytes, receipt_atts>>

\* Lines 855-875: _call_vision_ocr raised (every exception is caught).
AnalyzeOcrFails ==
    /\ pc = "ocr"
    /\ UNCHANGED pvars
    /\ calls' = Called("ocr", receipt_atts[ridx].attachment_id, "other")
    /\ receipts' = Append(receipts, OcrErrorEntry(receipt_atts[ridx].filename))
    /\ ridx' = ridx + 1
    /\ pc' = "receipt_loop"
    /\ UNCHANGED <<form_data, recon, used_flags, matched, first, phase,
                   mailbox, attachments, form_att, pdf_bytes, receipt_atts, ret>>

\* Lines 855-875: _call_vision_ocr returned ocr_text.
AnalyzeOcrReceipt(ocr_text) ==
    /\ pc = "ocr"
    /\ UNCHANGED pvars
    /\ calls' = Append(calls, [op |-> "ocr", att |-> receipt_atts[ridx].attachment_id,
                                outcome |-> "ok", text |-> ocr_text])
    /\ receipts' = Append(receipts, OkEntry(receipt_atts[ridx].filename, ocr_text))
    /\ ridx' = ridx + 1
    /\ pc' = "receipt_loop"
    /\ UNCHANGED <<form_data, recon, used_flags, matched, first, phase,
                   mailbox, attachments, form_att, pdf_bytes, receipt_atts, ret>>

\* Lines 877-886: the loop is over; reconcile and return.
AnalyzeReconcile ==
    /\ pc = "receipt_loop"
    /\ UNCHANGED pvars
    /\ ridx > Len(receipt_atts)
    /\ calls' = Called("reconcile", 0, "ok")
    /\ LET run == ReconcileRun(form_data, receipts)
       IN  /\ recon' = run.ret
           /\ used_flags' = run.used
           /\ matched' = run.matched
           /\ first' = run.ret
           /\ phase' = 1
           /\ Return([message_id |-> MessageId,
                      subject |-> <<"subject">>,
                      form_data |-> form_data,
                      receipts |-> receipts,
                      reconciliation |-> run.ret])
    /\ UNCHANGED <<form_data, receipts, mailbox, attachments, form_att, pdf_bytes,
                   receipt_atts, ridx>>

\* None of the helper functions is being called on its own.
HelpersIdle ==
    /\ pa_text = <<>>
    /\ pa_ret = NotCalled
    /\ pf_pdf = NoPdf
    /\ pf_ret = NoReturn
    /\ cl_atts = <<>>
    /\ cl_ret = NoReturn

InitAnalyze ==
    /\ HelpersIdle
    /\ pc = "fetch"
    /\ mailbox \in Mailboxes
    /\ attachments = <<>>
    /\ form_att = NoAttachment
    /\ pdf_bytes = NoPdf
    /\ receipt_atts = <<>>
    /\ ridx = 1
    /\ ret = NoReturn
    /\ calls = <<>>
    /\ form_data = NoForm
    /\ receipts = <<>>
    /\ recon = NoResult
    /\ used_flags = <<>>
    /\ matched = <<>>
    /\ first = NoResult
    /\ phase = 0

NextAnalyze ==
    \/ \E outcome \in Outcomes : AnalyzeFetch(outcome)
    \/ AnalyzeCheckAttachments
    \/ AnalyzeSelectForm
    \/ \E outcome \in Outcomes : \E pdf \in Pdfs : AnalyzeDownloadForm(outcome, pdf)
    \/ AnalyzeParseForm
    \/ \E outcome \in Outcomes : AnalyzeDownloadReceipt(outcome)
    \/ AnalyzeOcrFails
    \/ \E ocr_text \in OcrTexts : AnalyzeOcrReceipt(ocr_text)
    \/ AnalyzeReconcile

SpecAnalyze == InitAnalyze /\ [][NextAnalyze]_vars

----------------------------------------------------------------------------
(* Inputs of reconcile: ReceiptResult dicts as analyze builds them (lines    *)
(* 845-875) and form records as _parse_reimburse_form_pdf shapes them, with  *)
(* any number of items.                                                      *)

\* A receipt whose download or OCR failed: filename and error only.
ErrorReceipts == {[filename |-> f, error |-> "OCR failed"] : f \in Filenames}

\* A receipt whose OCR text was parsed; selected_amount is None when no amount
\* was found in it.
OkReceipts ==
    {[filename |-> f,
      candidate_amounts |-> IF a = None THEN <<>> ELSE <<a>>,
      selected_amount |-> a,
      ocr_text_preview |-> <<>>] : f \in Filenames, a \in Amounts \cup {None}}

ReceiptLists == SeqOfMax(ErrorReceipts \cup OkReceipts, MaxReceipts)

FormItems ==
    {[description |-> <<"item">>, harga |-> s, jumlah |-> IF s = None THEN None ELSE 1,
      subtotal |-> s] : s \in Amounts \cup {None}}

Forms ==
    {[tanggal_pengajuan |-> <<"16/04/2025">>, items |-> its, total |-> t]
        : its \in SeqOfMax(FormItems, MaxItems), t \in FormTotals \cup {None}}

----------------------------------------------------------------------------
(* The reconcile machine: a caller holding one (form_data, receipts) pair   *)
(* calls reconcile on it any number of times.                                *)

\* analyze is not running.
AnalyzeIdle ==
    /\ pc = "idle"
    /\ mailbox = <<>>
    /\ attachments = <<>>
    /\ form_att = NoAttachment
    /\ pdf_bytes = NoPdf
    /\ receipt_atts = <<>>
    /\ ridx = 1
    /\ ret = NoReturn
    /\ calls = <<>>

Init ==
    /\ form_data \in Forms
    /\ receipts \in ReceiptLists
    /\ recon = NoResult
    /\ used_flags = <<>>
    /\ matched = <<>>
    /\ first = NoResult
    /\ phase = 0
    /\ AnalyzeIdle
    /\ HelpersIdle

\* One call reconcile(form_data, receipts).  The function assigns to neither
\* argument nor to anything an argument refers to.
ReconcileCall ==
    /\ pc = "idle"
    /\ UNCHANGED pvars
    /\ LET run == ReconcileRun(form_data, receipts)
       IN  /\ recon' = run.ret
           /\ used_flags' = run.used
           /\ matched' = run.matched
           /\ first' = IF first = NoResult THEN run.ret ELSE first
    /\ phase' = IF phase = 0 THEN 1 ELSE IF phase = 2 THEN 3 ELSE phase
    /\ UNCHANGED <<form_data, receipts>>
    /\ UNCHANGED avars

\* A call, between two calls on (form_data, receipts), on another pair.
OtherPairs ==
    {[form |-> [items |-> <<[description |-> <<"x">>, subtotal |-> 1000]>>, total |-> 1000],
      receipts |-> <<[filename |-> <<"a", ".jpg">>, candidate_amounts |-> <<1000>>,
                      selected_amount |-> 1000, ocr_text_preview |-> <<>>]>>],
     [form |-> [items |-> <<[description |-> <<"x">>, subtotal |-> 2000],
                            [description |-> <<"y">>, subtotal |-> 1000]>>, total |-> None],
      receipts |-> <<[filename |-> <<"a", ".jpg">>, error |-> "OCR failed"],
                     [filename |-> <<"b", ".jpg">>, candidate_amounts |-> <<2000>>,
                      selected_amount |-> 2000, ocr_text_preview |-> <<>>],
                     [filename |-> <<"b", ".jpg">>, candidate_amounts |-> <<1000, 2000>>,
                      selected_amount |-> 2000, ocr_text_preview |-> <<>>]>>]}

ReconcileOther(p) ==
    /\ pc = "idle"
    /\ UNCHANGED pvars
    /\ LET run == ReconcileRun(p.form, p.receipts)
       IN  /\ used_flags' = run.used
           /\ matched' = run.matched
    /\ phase' = IF phase = 1 THEN 2 ELSE phase
    /\ UNCHANGED <<form_data, receipts, recon, first>>
    /\ UNCHANGED avars

Next == ReconcileCall

Spec == Init /\ [][Next]_vars

\* Repeated calls interleaved with calls on other pairs, on the shorter lists.
InitRepeat ==
    /\ Init
    /\ Len(receipts) < MaxReceipts

NextRepeat ==
    \/ ReconcileCall
    \/ \E p \in OtherPairs : ReconcileOther(p)

SpecRepeat == InitRepeat /\ [][NextRepeat]_vars

----------------------------------------------------------------------------
(* Properties of reconcile *)

Reconciled == pc = "idle" /\ recon # NoResult

ItemIdx == 1..Len(form_data.items)
ReceiptIdx == 1..Len(receipts)

Amount(k) == Get(receipts[k], "selected_amount")

\* The positions of receipts some item was matched to.
MatchedSet == {matched[i] : i \in 1..Len(matched)} \ {None}

\* The receipts at the positions in keep, in input order.
RECURSIVE Keep(_, _, _)
Keep(rs, keep, i) ==
    IF i > Len(rs) THEN <<>>
    ELSE (IF i \in keep THEN <<rs[i]>> ELSE <<>>) \o Keep(rs, keep, i + 1)

\* The sum of the integer selected_amounts, by position.
AmountTotal(rs) ==
    LET F[i \in 0..Len(rs)] ==
            IF i = 0 THEN 0
            ELSE F[i - 1] + (IF Get(rs[i], "selected_amount") \in Nat
                             THEN Get(rs[i], "selected_amount") ELSE 0)
    IN  F[Len(rs)]

InNotes(n) == \E i \in 1..Len(recon.notes) : recon.notes[i] = n

\* C1: no receipt position is consumed by two items; an item is MATCH exactly
\* when it consumed one receipt, whose filename it reports.
C1_NoReceiptMatchedTwice ==
    Reconciled =>
        /\ Len(recon.items) = Len(form_data.items)
        /\ Len(matched) = Len(form_data.items)
        /\ \A i \in ItemIdx :
            /\ recon.items[i].status = "MATCH" <=> matched[i] # None
            /\ matched[i] # None =>
                /\ matched[i] \in ReceiptIdx
                /\ recon.items[i].receipt_filename = receipts[matched[i]].filename
                /\ Amount(matched[i]) = form_data.items[i].subtotal
        /\ \A i, j \in ItemIdx : (i # j /\ matched[i] # None) => matched[i] # matched[j]
        /\ Cardinality(MatchedSet) =
               Cardinality({i \in ItemIdx : recon.items[i].status = "MATCH"})

\* Two items are MATCH on two receipts that share amount and filename.
C1_Witness ==
    /\ Reconciled
    /\ \E i, j \in ItemIdx :
        /\ i < j
        /\ recon.items[i].status = "MATCH"
        /\ recon.items[j].status = "MATCH"
        /\ receipts[matched[i]] = receipts[matched[j]]

\* C2: OK exactly when every item is MATCH and form_total is absent or equal
\* to sum_receipt_amounts, MISMATCH otherwise; the one-item example is OK with
\* nothing unmatched and no notes.
C2_OverallStatus ==
    Reconciled =>
        /\ recon.overall_status \in {"OK", "MISMATCH"}
        /\ recon.overall_status = "OK" <=>
            /\ \A i \in ItemIdx : recon.items[i].status = "MATCH"
            /\ \/ form_data.total = None
               \/ form_data.total = recon.sum_receipt_amounts
        /\ ( /\ Len(form_data.items) = 1
             /\ Len(receipts) = 1
             /\ form_data.items[1].subtotal # None
             /\ Amount(1) = form_data.items[1].subtotal
             /\ form_data.total = form_data.items[1].subtotal )
           => /\ recon.overall_status = "OK"
              /\ recon.items[1].status = "MATCH"
              /\ recon.unmatched_receipts = <<>>
              /\ recon.notes = <<>>

C2_Witness ==
    /\ Reconciled
    /\ Len(form_data.items) = 1
    /\ Len(receipts) = 1
    /\ form_data.total = 2000
    /\ form_data.items[1].subtotal = 2000
    /\ Amount(1) = 2000
    /\ recon.overall_status = "OK"

\* C3: item i is matched to the first receipt, in input order, that has an
\* integer selected_amount equal to its integer subtotal and was matched to no
\* earlier item; without one it is MISSING_RECEIPT with no filename.
C3_FirstFit ==
    Reconciled =>
        \A i \in ItemIdx :
            LET s == form_data.items[i].subtotal
                earlier == {matched[j] : j \in 1..(i - 1)}
                fits == {k \in ReceiptIdx :
                            Amount(k) # None /\ Amount(k) = s /\ k \notin earlier}
            IN  IF s # None /\ fits # {}
                THEN /\ recon.items[i].status = "MATCH"
                     /\ matched[i] \in fits
                     /\ \A k \in fits : matched[i] <= k
                     /\ recon.items[i].receipt_filename = receipts[matched[i]].filename
                ELSE /\ recon.items[i].status = "MISSING_RECEIPT"
                     /\ recon.items[i].receipt_filename = NoneStr
                     /\ matched[i] = None

\* An item took the earlier of two receipts with its amount and different
\* filenames, while a receipt without an amount stayed unmatched.
C3_Witness ==
    /\ Reconciled
    /\ \E i \in ItemIdx : \E k \in ReceiptIdx :
        /\ matched[i] # None
        /\ matched[i] < k
        /\ Amount(k) = Amount(matched[i])
        /\ receipts[k].filename # receipts[matched[i]].filename
    /\ \E k \in ReceiptIdx : Amount(k) = None

\* C4 (as claimed): unmatched_receipts is every input receipt no item was
\* matched to, the ones without an integer amount included, in input order.
C4_UnmatchedIsEveryUnusedReceipt ==
    Reconciled => recon.unmatched_receipts = Keep(receipts, ReceiptIdx \ MatchedSet, 1)

\* C5: sum_receipt_amounts is the sum of the integer selected_amounts of all
\* input receipts, a function of the receipt list alone, 0 without any.
C5_SumOfAllIntegerAmounts ==
    Reconciled =>
        /\ recon.sum_receipt_amounts = AmountTotal(receipts)
        /\ (\A k \in ReceiptIdx : Amount(k) = None) => recon.sum_receipt_amounts = 0

\* A matched and an unmatched receipt of the same amount are both summed.
C5_Witness ==
    /\ Reconciled
    /\ \E k, l \in ReceiptIdx :
        /\ k \in MatchedSet
        /\ l \notin MatchedSet
        /\ Amount(l) = Amount(k)
    /\ recon.sum_receipt_amounts >= 4000

\* C6 (as claimed): each note is present exactly on its own condition; the
\* unused-receipts note exactly when some input receipt remains unmatched.
C6_NotesAreIndependentFlags ==
    Reconciled =>
        /\ InNotes(NoteTotal) <=>
               (form_data.total # None /\ form_data.total # recon.sum_receipt_amounts)
        /\ InNotes(NoteMissing) <=> (\E i \in ItemIdx : recon.items[i].status # "MATCH")
        /\ InNotes(NoteUnused) <=> (ReceiptIdx \ MatchedSet # {})

\* C7: every call on (form_data, receipts) returns what the first call on it
\* returned, whatever was called in between, and no step changes the pair.
C7_Deterministic ==
    /\ [](Reconciled => recon = first)
    /\ [][form_data' = form_data /\ receipts' = receipts]_vars

\* A call on the pair, a call on another pair, and one more call on the pair,
\* which matched a receipt and left one unused.
C7_Witness ==
    /\ Reconciled
    /\ phase = 3
    /\ recon = first
    /\ \E i \in DOMAIN used_flags : used_flags[i]
    /\ \E i \in DOMAIN used_flags : ~used_flags[i]

\* The items with subtotal v and the receipts with selected_amount v, by
\* position, and the rank of a position among them.
ItemsOf(v) == {i \in ItemIdx : Get(form_data.items[i], "subtotal") = v}
ReceiptsOf(v) == {k \in ReceiptIdx : Amount(k) = v}
Rank(S, x) == Cardinality({y \in S : y <= x})
Min(a, b) == IF a <= b THEN a ELSE b

\* The receipts with an integer selected_amount.
Eligible == {k \in ReceiptIdx : Amount(k) # None}

MatchItemsIdx == {i \in ItemIdx : recon.items[i].status = "MATCH"}

\* C19: for every amount v the k-th item with subtotal v is matched to the
\* k-th receipt with selected_amount v when both exist and is
\* MISSING_RECEIPT otherwise, so min(items, receipts) of them are MATCH; the
\* MATCH items and the unused eligible receipts add up to the eligible ones.
C19_MaximalAndPositional ==
    Reconciled =>
        /\ \A v \in Amounts :
            /\ Cardinality(ItemsOf(v) \cap MatchItemsIdx) =
                   Min(Cardinality(ItemsOf(v)), Cardinality(ReceiptsOf(v)))
            /\ \A i \in ItemsOf(v) :
                   IF Rank(ItemsOf(v), i) <= Cardinality(ReceiptsOf(v))
                   THEN /\ recon.items[i].status = "MATCH"
                        /\ matched[i] \in ReceiptsOf(v)
                        /\ Rank(ReceiptsOf(v), matched[i]) = Rank(ItemsOf(v), i)
                   ELSE /\ recon.items[i].status = "MISSING_RECEIPT"
                        /\ matched[i] = None
        /\ Cardinality(MatchItemsIdx) + Cardinality(Eligible \ MatchedSet)
               = Cardinality(Eligible)
        /\ Len(recon.unmatched_receipts) = Cardinality(Eligible \ MatchedSet)

\* Two items of one subtotal and one receipt of that amount, which is not
\* the first eligible receipt: the first item is MATCH, the second is not,
\* and an eligible receipt stays unused.
C19_Witness ==
    /\ Reconciled
    /\ \E v \in Amounts :
           /\ Cardinality(ItemsOf(v)) = 2
           /\ Cardinality(ReceiptsOf(v)) = 1
           /\ \E k \in Eligible : k < CHOOSE r \in ReceiptsOf(v) : TRUE
    /\ recon.items[1].status = "MATCH"
    /\ recon.items[2].status = "MISSING_RECEIPT"
    /\ Eligible \ MatchedSet # {}

----------------------------------------------------------------------------
(* Properties of analyze *)

Done == pc = "done"

IsErrorObject(r) == "error" \in DOMAIN r
IsRaised(r) == "raised" \in DOMAIN r
IsAnalysis(r) == {"form_data", "receipts", "reconciliation"} \subseteq DOMAIN r

CallIdx == 1..Len(calls)

Made(op, outcomes) == \E k \in CallIdx : calls[k].op = op /\ calls[k].outcome \in outcomes

Failures == {"HttpError", "other"}

\* The receipt candidates of the message, in attachment order.
Candidates == SelectSeq(mailbox, IsImage)

\* Nothing of the receipts was touched and reconcile was not run.
NoReceiptWork ==
    /\ ~Made("download_receipt", Outcomes)
    /\ ~Made("ocr", Outcomes)
    /\ ~Made("reconcile", Outcomes)
    /\ recon = NoResult
    /\ receipts = <<>>

\* analyze ended before the receipts for one of the reasons of C8.
NoAttachments == Made("get_message", {"ok"}) /\ mailbox = <<>>
NoFormPdf ==
    Made("get_message", {"ok"}) /\ mailbox # <<>> /\ \A i \in 1..Len(mailbox) : ~IsPdf(mailbox[i])
FormDownloadFailed == Made("download_form", Failures)
FormParseFailed == Made("parse_form", Failures)

\* C8 (as claimed): without attachments, without a form PDF, and when the
\* chosen PDF cannot be downloaded or parsed, analyze returns an error object
\* without form_data, receipts or reconciliation, the checks being made in
\* that order and before any receipt is downloaded, OCR'd or reconciled.
C8_ErrorObjectBeforeReceipts ==
    (Done /\ (NoAttachments \/ NoFormPdf \/ FormDownloadFailed \/ FormParseFailed)) =>
        /\ IsErrorObject(ret)
        /\ DOMAIN ret \cap {"form_data", "receipts", "reconciliation"} = {}
        /\ NoReceiptWork
        /\ NoAttachments => ret.error = "No attachments found in this email."
        /\ NoFormPdf =>
               ret.error = "No reimbursement form PDF attachment found in this email."
        /\ (NoAttachments \/ NoFormPdf) => ~Made("download_form", Outcomes)
        /\ FormDownloadFailed => ~Made("parse_form", Outcomes)

\* C9 (as claimed): a failed download or OCR of a receipt image, of whatever
\* kind, never leaves analyze as an exception: the analysis is returned, with
\* one entry per candidate, an error entry for the failed one, which no item
\* is matched to.
C9_ReceiptFailureContained ==
    (Done /\ (Made("download_receipt", Failures) \/ Made("ocr", Failures))) =>
        /\ ~IsRaised(ret)
        /\ IsAnalysis(ret)
        /\ Len(ret.receipts) = Len(Candidates)
        /\ \A k \in CallIdx :
               (calls[k].op \in {"download_receipt", "ocr"} /\ calls[k].outcome \in Failures) =>
                   \E n \in 1..Len(Candidates) :
                       /\ Candidates[n].attachment_id = calls[k].att
                       /\ "error" \in DOMAIN ret.receipts[n]
                       /\ \A i \in 1..Len(matched) : matched[i] # n

\* C10: a returned receipts list has one entry per receipt candidate, in
\* attachment order; an entry has either an error, exactly when its download
\* or OCR failed, or candidate_amounts and selected_amount, never both.
C10_OneEntryPerCandidate ==
    (Done /\ IsAnalysis(ret)) =>
        /\ Len(ret.receipts) = Len(Candidates)
        /\ \A n \in 1..Len(Candidates) :
            LET entry == ret.receipts[n]
                failed == \E k \in CallIdx :
                              /\ calls[k].op \in {"download_receipt", "ocr"}
                              /\ calls[k].att = Candidates[n].attachment_id
                              /\ calls[k].outcome \in Failures
            IN  /\ entry.filename = Candidates[n].filename
                /\ "error" \in DOMAIN entry <=> failed
                /\ "error" \in DOMAIN entry =>
                       DOMAIN entry \cap {"candidate_amounts", "selected_amount",
                                          "ocr_text_preview"} = {}
                /\ "error" \notin DOMAIN entry =>
                       {"candidate_amounts", "selected_amount"} \subseteq DOMAIN entry

\* An analysis with a failed download, a failed OCR and an OCR'd receipt with
\* an amount.
C10_Witness ==
    /\ Done
    /\ IsAnalysis(ret)
    /\ Made("download_receipt", {"HttpError"})
    /\ Made("ocr", Failures)
    /\ \E n \in 1..Len(ret.receipts) :
           /\ "error" \notin DOMAIN ret.receipts[n]
           /\ ret.receipts[n].selected_amount # None

\* The receipts analyze has built so far from an OCR text.
OcrEntries == {n \in 1..Len(receipts) : "error" \notin DOMAIN receipts[n]}

\* The text the OCR service returned for the n-th receipt candidate.
OcrTextOf(n) ==
    LET k == CHOOSE k \in CallIdx : /\ calls[k].op = "ocr"
                                    /\ calls[k].outcome = "ok"
                                    /\ calls[k].att = Candidates[n].attachment_id
    IN  calls[k].text

\* C11: the selected_amount of a receipt built from an OCR text is None when
\* candidate_amounts is empty and otherwise the greatest member of
\* candidate_amounts.
C11_SelectedIsMaximum ==
    \A n \in OcrEntries :
        LET entry == receipts[n]
            cands == SeqToSet(entry.candidate_amounts)
        IN  IF cands = {} THEN entry.selected_amount = None
            ELSE /\ entry.selected_amount \in cands
                 /\ \A a \in cands : a <= entry.selected_amount

\* An analysis with a receipt without candidates and a receipt with two
\* candidates whose greater one came first in the text.
C11_Witness ==
    /\ Done
    /\ IsAnalysis(ret)
    /\ \E n \in OcrEntries : receipts[n].candidate_amounts = <<>>
    /\ \E n \in OcrEntries :
           /\ Len(receipts[n].candidate_amounts) = 2
           /\ receipts[n].selected_amount = 2000
           /\ OcrTextOf(n)[1] = "IDR"

\* C17 (as claimed): the preview is empty for an empty OCR text, the text
\* itself when it has at most PreviewLen characters, and its first PreviewLen
\* characters followed by the ellipsis when it is longer.
C17_PreviewEllipsisOnlyWhenTruncated ==
    \A n \in OcrEntries :
        LET t == OcrTextOf(n)
        IN  receipts[n].ocr_text_preview =
                IF Len(t) <= PreviewLen THEN t
                ELSE SubSeq(t, 1, PreviewLen) \o <<Ellipsis>>

\* C18 (as claimed): the attachment chosen as the form PDF is not among the
\* receipt candidates, and no attachment is both parsed as the form and
\* OCR'd as a receipt.
C18_FormIsNoReceiptCandidate ==
    /\ \A n \in 1..Len(receipt_atts) :
           receipt_atts[n].attachment_id # form_att.attachment_id
    /\ \A k \in CallIdx : \A l \in CallIdx :
           (calls[k].op = "parse_form" /\ calls[l].op = "ocr") => calls[k].att # calls[l].att

----------------------------------------------------------------------------
(* _parse_amounts_from_text called on its own, on texts put together from   *)
(* up to MaxTokens pieces and on the texts the specification quotes.        *)

MaxTokens == 4

\* The widest numeral of a text: Python's int is unbounded, the integers of
\* the model are not.
MaxDigits == 9

TextTokens ==
    {<<"Rp", " ">>,
     <<"idr">>,
     <<"Corp">>,
     <<"Total", ":">>,
     <<" ">>,
     <<"\n">>,
     <<",">>,
     <<"1", "2">>,
     <<"1", ".", "5">>,
     <<"1", ".", "0", "0", "0">>,
     <<"1", ".", "2", "5", "0", ",", "9", "9">>}

ExampleRp == <<"Rp", " ", "3", "0", "0", ".", "0", "0", "0">>
ExampleIdr == <<"IDR", " ", "1", ",", "2", "5", "0", ",", "0", "0", "0", ".", "0", "0">>
ExampleBare ==
    <<"Total", ":", " ", "4", "5", ".", "0", "0", "0", " ", "and", " ",
      "1", ".", "2", "5", "0", ".", "0", "0", "0">>

ExampleTexts == {ExampleRp, ExampleIdr, ExampleBare}

RECURSIVE Concat(_)
Concat(pieces) == IF pieces = <<>> THEN <<>> ELSE Head(pieces) \o Concat(Tail(pieces))

\* No run of [0-9.,] of the text holds more than MaxDigits digits.
NumeralsFit(t) ==
    \A i \in 1..Len(t) :
        (IsNumChar(t[i]) /\ (i = 1 \/ ~IsNumChar(t[i - 1]))) =>
            Len(OnlyDigits(SubSeq(t, i, NumRunEnd(t, i)))) <= MaxDigits

Texts ==
    {t \in {Concat(ps) : ps \in SeqOfMax(TextTokens, MaxTokens)} : NumeralsFit(t)}
    \cup ExampleTexts

\* reconcile is not running.
ReconcileIdle ==
    /\ form_data = NoForm
    /\ receipts = <<>>
    /\ recon = NoResult
    /\ used_flags = <<>>
    /\ matched = <<>>
    /\ first = NoResult
    /\ phase = 0

InitAmounts ==
    /\ pa_text \in Texts
    /\ pa_ret = NotCalled
    /\ pf_pdf = NoPdf
    /\ pf_ret = NoReturn
    /\ cl_atts = <<>>
    /\ cl_ret = NoReturn
    /\ ReconcileIdle
    /\ AnalyzeIdle

\* One call _parse_amounts_from_text(pa_text).
ParseAmountsCall ==
    /\ pa_ret = NotCalled
    /\ pa_ret' = ParseAmounts(pa_text)
    /\ UNCHANGED <<pa_text, pf_pdf, pf_ret, cl_atts, cl_ret>>
    /\ UNCHANGED <<rvars, avars>>

NextAmounts == ParseAmountsCall

SpecAmounts == InitAmounts /\ [][NextAmounts]_vars

----------------------------------------------------------------------------
(* Properties of _parse_amounts_from_text *)

AmountsReturned == pa_ret # NotCalled

Returned == SeqToSet(pa_ret)

\* The first digit after a marker, with no digit in between: where the
\* numeric literal of a marked token starts.
MarkedStarts(s) ==
    {d \in 1..Len(s) :
        /\ IsDigit(s[d])
        /\ \E m \in 1..(d - 1) : IsMarker(s[m]) /\ \A j \in (m + 1)..(d - 1) : ~IsDigit(s[j])}

\* The numeric literals of the marked tokens: digits and separators.
MarkedLiterals(s) == {SubSeq(s, d, NumRunEnd(s, d)) : d \in MarkedStarts(s)}

\* s[i..e] is a grouped numeral: 1 to 3 digits, then one or more groups of a
\* separator and exactly 3 digits.
IsGrouped(s, i, e) ==
    \E h \in 1..3 :
        /\ e - i + 1 > h
        /\ (e - i + 1 - h) % 4 = 0
        /\ \A j \in i..e :
               IF j - i >= h /\ (j - i - h) % 4 = 0 THEN s[j] \in Separators ELSE IsDigit(s[j])

\* The values of the grouped numerals that can be read in s.
GroupedValues(s) ==
    {DigitsValue(OnlyDigits(SubSeq(s, p[1], p[2]))) :
        p \in {q \in (1..Len(s)) \X (1..Len(s)) : q[1] < q[2] /\ IsGrouped(s, q[1], q[2])}}

\* s[i..e] is a whole word of the text.
IsWholeWord(s, i, e) ==
    /\ i = 1 \/ s[i - 1] \in {" ", ":"}
    /\ e = Len(s) \/ s[e + 1] \in {" ", ":"}

\* The segments of a literal between its separators.
RECURSIVE SplitSeparators(_)
SplitSeparators(lit) ==
    LET ps == {i \in 1..Len(lit) : lit[i] \in Separators}
        q == CHOOSE i \in ps : \A j \in ps : i <= j
    IN  IF ps = {} THEN <<lit>>
        ELSE <<SubSeq(lit, 1, q - 1)>> \o SplitSeparators(SubSeq(lit, q + 1, Len(lit)))

\* The amount a literal stands for: a last segment of exactly 2 digits is a
\* fraction and is dropped, the other segments are thousands groups.
Normalized(lit) ==
    LET segs == SplitSeparators(lit)
        kept == IF Len(segs) >= 2 /\ Len(segs[Len(segs)]) = 2
                THEN SubSeq(segs, 1, Len(segs) - 1) ELSE segs
    IN  IF Concat(kept) = <<>> THEN None ELSE DigitsValue(Concat(kept))

\* C12: the returned list is a list of integers in strictly ascending order,
\* whichever pass found them and however often one repeats, and it is empty
\* for the empty text.
C12_StrictlyAscending ==
    AmountsReturned =>
        /\ \A k \in 1..Len(pa_ret) : pa_ret[k] \in Nat
        /\ \A k \in 1..(Len(pa_ret) - 1) : pa_ret[k] < pa_ret[k + 1]
        /\ pa_text = <<>> => pa_ret = <<>>

\* The fallback pass found the greater amount first.
C12_Witness ==
    /\ AmountsReturned
    /\ PrimaryAmounts(Cleaned(pa_text)) = <<>>
    /\ FallbackAmounts(Cleaned(pa_text)) = <<1250, 1000>>
    /\ pa_ret = <<1000, 1250>>

\* C13: when a marked token parses, the result is the set of the marked
\* amounts and no numeral without a marker adds to it; when none does, the
\* result is the set of the grouped numerals of the text.
C13_FallbackOnlyWithoutMarkedAmount ==
    AmountsReturned =>
        LET s == Cleaned(pa_text)
            marked == {ToInt(lit) : lit \in MarkedLiterals(s)}
        IN  /\ marked # {} => Returned = marked
            /\ marked = {} =>
                   /\ Returned = SeqToSet(FallbackAmounts(s))
                   /\ \A i \in 1..Len(s) : \A e \in i..Len(s) :
                          (IsGrouped(s, i, e) /\ IsWholeWord(s, i, e)) =>
                              DigitsValue(OnlyDigits(SubSeq(s, i, e))) \in Returned
                   /\ Returned \subseteq GroupedValues(s)
            /\ pa_text = ExampleBare => pa_ret = <<45000, 1250000>>

\* A marked amount, and a grouped numeral without a marker that is left out.
C13_Witness ==
    /\ AmountsReturned
    /\ MarkedStarts(Cleaned(pa_text)) # {}
    /\ pa_ret # <<>>
    /\ SeqToSet(FallbackAmounts(Cleaned(pa_text))) \ Returned # {}

\* C14: the amount of a marked literal is the concatenation of its segments,
\* without the last one when the literal has a separator and its last
\* segment has exactly 2 digits; a literal without digits adds nothing.
C14_LiteralNormalization ==
    AmountsReturned =>
        LET s == Cleaned(pa_text)
            marked == {Normalized(lit) : lit \in MarkedLiterals(s)}
        IN  /\ marked # {} => Returned = marked
            /\ marked = {} => Returned \subseteq GroupedValues(s)
            /\ pa_text = ExampleRp => pa_ret = <<300000>>
            /\ pa_text = ExampleIdr => pa_ret = <<1250000>>

\* A marked literal whose fraction of 99 is dropped, not rounded up.
C14_Witness ==
    /\ AmountsReturned
    /\ <<"1", ".", "2", "5", "0", ",", "9", "9">> \in MarkedLiterals(Cleaned(pa_text))
    /\ 1250 \in Returned
    /\ 1251 \notin Returned

----------------------------------------------------------------------------
(* _select_form_pdf_attachment and _get_receipt_image_attachments called on *)
(* their own, on one list of up to MaxAttachments attachments.              *)

PngMime == <<"image", "/", "png">>
TextMime == <<"text", "/", "plain">>

ClassifyKinds ==
    {[filename |-> <<"a", ".pdf">>, mimeType |-> PdfMime],
     [filename |-> <<"receipt", "_b", ".pdf">>, mimeType |-> PdfMime],
     [filename |-> <<"form", ".pdf">>, mimeType |-> PdfMime],
     [filename |-> <<"reimburse", "_", "receipt", ".pdf">>, mimeType |-> OctetMime],
     [filename |-> <<"FORM", ".PDF">>, mimeType |-> PngMime],
     [filename |-> <<"scan", ".png">>, mimeType |-> PdfMime],
     [filename |-> <<"photo", ".jpg">>, mimeType |-> JpegMime],
     [filename |-> <<"notes", ".txt">>, mimeType |-> TextMime],
     [filename |-> NoneStr, mimeType |-> PdfMime]}

AttachmentLists ==
    {[i \in 1..Len(ks) |-> [attachment_id |-> i,
                            filename |-> ks[i].filename,
                            mimeType |-> ks[i].mimeType]]
        : ks \in SeqOfMax(ClassifyKinds, MaxAttachments)}

InitClassify ==
    /\ cl_atts \in AttachmentLists
    /\ cl_ret = NoReturn
    /\ pa_text = <<>>
    /\ pa_ret = NotCalled
    /\ pf_pdf = NoPdf
    /\ pf_ret = NoReturn
    /\ ReconcileIdle
    /\ AnalyzeIdle

\* The two filters applied to cl_atts, as lines 798 and 835 apply them to the
\* attachments of one message.
ClassifyCall ==
    /\ cl_ret = NoReturn
    /\ cl_ret' = [form_candidate |-> SelectFormPdf(cl_atts),
                  receipt_candidates |-> GetReceiptImageAttachments(cl_atts)]
    /\ UNCHANGED <<pa_text, pa_ret, pf_pdf, pf_ret, cl_atts>>
    /\ UNCHANGED <<rvars, avars>>

NextClassify == ClassifyCall

SpecClassify == InitClassify /\ [][NextClassify]_vars

----------------------------------------------------------------------------
(* Properties of the attachment filters *)

Classified == cl_ret # NoReturn

\* The attachments that qualify as a PDF, by position.
PdfIdx == {i \in 1..Len(cl_atts) : IsPdf(cl_atts[i])}

----------------------------------------------------------------------------
(* _parse_reimburse_form_pdf called on its own, on a PDF whose page holds   *)
(* up to MaxLines lines, and the form it returns reconciled, as lines       *)
(* 826-878 do, with up to MaxFormReceipts receipts.                          *)

MaxLines == 3
MaxFormReceipts == 2

FormLineKinds ==
    {<<"Tanggal Pengajuan", " ", ":", " ", "1", "6", "/", "0", "4">>,
     <<"Tanggal Pengajuan", " ", "1", "6", "/", "0", "4">>,
     <<"Nama Bank", " ", ":", " ", "BCA">>,
     <<"Nama Bank", " ", "BCA">>,
     <<"Nomor Rekening", ":", "1", "2", "3">>,
     <<"No Description", " ", "Detail", " ", "Harga">>,
     <<"1", " ", "Taxi", " ", "Rp", " ", "1", ".", "0", "0", "0", " ", "2", " ",
       "Rp", " ", "2", ".", "0", "0", "0">>,
     <<"1", " ", "Taxi">>,
     <<"Rp", " ", "1", ".", "0", "0", "0">>,
     <<" ">>}

FormPdfs ==
    {[readable |-> FALSE, pages |-> <<>>], [readable |-> TRUE, pages |-> <<>>]}
    \cup {[readable |-> TRUE, pages |-> <<JoinWith(lines, "\n")>>]
             : lines \in SeqOfMax(FormLineKinds, MaxLines)}

\* Receipt entries as the loop of lines 838-875 builds them.
FormReceiptKinds ==
    {OkEntry(<<"a", ".jpg">>, <<"Rp", " ", "2", ".", "0", "0", "0">>),
     OkEntry(<<"b", ".jpg">>, <<"Rp", " ", "0">>),
     OcrErrorEntry(<<"c", ".jpg">>)}

FormReceiptLists == SeqOfMax(FormReceiptKinds, MaxFormReceipts)

InitForm ==
    /\ pf_pdf \in FormPdfs
    /\ pf_ret = NoReturn
    /\ pa_text = <<>>
    /\ pa_ret = NotCalled
    /\ cl_atts = <<>>
    /\ cl_ret = NoReturn
    /\ ReconcileIdle
    /\ AnalyzeIdle

\* One call _parse_reimburse_form_pdf(pf_pdf).
ParseFormCall ==
    /\ pf_ret = NoReturn
    /\ pf_ret' = ParseForm(pf_pdf)
    /\ UNCHANGED <<pa_text, pa_ret, pf_pdf, cl_atts, cl_ret>>
    /\ UNCHANGED <<rvars, avars>>

\* Lines 826-878 for a form that was parsed: the form is stamped and
\* reconciled with the receipts rs of the message.
ReconcileParsed(rs) ==
    /\ pf_ret # NoReturn
    /\ "raised" \notin DOMAIN pf_ret
    /\ recon = NoResult
    /\ form_data' = [tanggal_pengajuan |-> pf_ret.tanggal_pengajuan,
                     items |-> pf_ret.items,
                     total |-> pf_ret.total,
                     rekening |-> pf_ret.rekening,
                     source_email_id |-> MessageId,
                     source_pdf_filename |-> <<"form", ".pdf">>]
    /\ receipts' = rs
    /\ LET run == ReconcileRun(form_data', rs)
       IN  /\ recon' = run.ret
           /\ used_flags' = run.used
           /\ matched' = run.matched
           /\ first' = run.ret
    /\ phase' = 1
    /\ UNCHANGED pvars
    /\ UNCHANGED avars

NextForm ==
    \/ ParseFormCall
    \/ \E rs \in FormReceiptLists : ReconcileParsed(rs)

SpecForm == InitForm /\ [][NextForm]_vars

----------------------------------------------------------------------------
(* Properties of _parse_reimburse_form_pdf *)

FormReturned == pf_ret # NoReturn

FormRaised == FormReturned /\ "raised" \in DOMAIN pf_ret

FormParsed == FormReturned /\ "raised" \notin DOMAIN pf_ret

\* The PDF can be read and its page text is not empty.
HasPageText == pf_pdf.readable /\ pf_pdf.pages # <<>> /\ JoinWith(pf_pdf.pages, "\n") # <<>>

\* The non-blank trimmed lines of the PDF.
PageLines == FormLines(JoinWith(pf_pdf.pages, "\n"))

HasHeader == \E i \in 1..Len(PageLines) : StartsWith(PageLines[i], "No Description")

\* C16 (as claimed): on a non-empty page text the parser raises nothing,
\* whatever line is missing or malformed, a label line without ':' included;
\* it returns a form record whose date and bank fields are strings.
C16_FieldMissesNeverRaise ==
    (FormReturned /\ HasPageText) =>
        /\ ~FormRaised
        /\ {"tanggal_pengajuan", "items", "total", "rekening"} \subseteq DOMAIN pf_ret

EmptyItem == [description |-> <<>>, harga |-> None, jumlah |-> None, subtotal |-> None]

\* The integer amounts of the receipts other than receipts[k].
OtherAmounts(k) ==
    AmountTotal([n \in 1..(Len(receipts) - 1) |->
                    IF n < k THEN receipts[n] ELSE receipts[n + 1]])

\* C20: a returned form record has exactly one item, the empty item when
\* there is no header line, and its total is the subtotal of that item; a
\* form without a subtotal reconciles to MISMATCH with the missing-receipt
\* note, and a form reconciles to OK only when a receipt has the subtotal as
\* its selected_amount and the other integer amounts sum to 0.
C20_OneItemTotalIsSubtotal ==
    /\ FormParsed =>
           /\ Len(pf_ret.items) = 1
           /\ pf_ret.total = pf_ret.items[1].subtotal
           /\ ~HasHeader => pf_ret.items[1] = EmptyItem
    /\ (FormParsed /\ recon # NoResult) =>
           /\ form_data.items = pf_ret.items /\ form_data.total = pf_ret.total
           /\ pf_ret.total = None =>
                  /\ recon.overall_status = "MISMATCH"
                  /\ InNotes(NoteMissing)
           /\ recon.overall_status = "OK" =>
                  \E k \in ReceiptIdx :
                      /\ Amount(k) # None
                      /\ Amount(k) = pf_ret.total
                      /\ OtherAmounts(k) = 0

\* A form with price 1000 and subtotal 2000 that reconciles to OK with a
\* receipt of 2000 and another receipt of amount 0.
C20_Witness ==
    /\ FormParsed
    /\ recon # NoResult
    /\ pf_ret.items[1].harga = 1000
    /\ pf_ret.total = 2000
    /\ recon.overall_status = "OK"
    /\ \E k \in ReceiptIdx : Amount(k) = 0

====
